---- MODULE Spec2Model ----
(***************************************************************************)
(* Model of the OAuth gateway of cent-github-backend.                      *)
(*                                                                         *)
(* Two generations of OAuth handlers are modelled side by side:            *)
(*   Gh*  src/src/index.ts      /api/github-oauth/{authorize,authorized,   *)
(*                              refresh-token}                             *)
(*   Oa*  src/unnamed/part_000  /api/oauth/{authorize,authorized,token}    *)
(* and so are the two /proxy handlers:                                     *)
(*   Ix*  src/src/index.ts      Rt*  src/src/routes/proxy.ts               *)
(*                                                                         *)
(* Strings are sequences of text segments, so that startsWith is a real    *)
(* prefix test and string interpolation is concatenation.  The empty       *)
(* sequence stands for every falsy string (undefined, "").                 *)
(*                                                                         *)
(* A request is a record held in a slot; a handler runs from one           *)
(* suspension point (an awaited upstream fetch) to the next in one action. *)
(* Nothing is shared between requests.  The clock is an input: the time is *)
(* read from the clock of whichever replica serves the request, and the    *)
(* replicas' clocks are not assumed to agree.                              *)
(***************************************************************************)
EXTENDS Integers, Sequences, FiniteSets, TLC

VARIABLES reqs, proxy, allow

vars == <<reqs, proxy, allow>>

(* ------------------------------ bounds -------------------------------- *)
MaxTime == 2
MaxNonce == 1
MaxInstall == 1

Slots == {"r1", "r2"}
Nonces == 0..MaxNonce
Times == 0..MaxTime

(* ------------------------------ strings ------------------------------- *)
Absent == <<>>

IsPrefix(p, s) ==
    /\ Len(p) <= Len(s)
    /\ \A i \in 1..Len(p) : s[i] = p[i]

Contains(s, seg) == \E i \in 1..Len(s) : s[i] = seg

Count(s, e) == Cardinality({i \in 1..Len(s) : s[i] = e})

FirstIndex(s, e) ==
    IF Contains(s, e) THEN CHOOSE i \in 1..Len(s) : s[i] = e /\ \A j \in 1..(i - 1) : s[j] # e
    ELSE 0

(* ----------------------------- environment ---------------------------- *)
GITHUB_CLIENT_ID == <<"Iv1.client-id">>
GITHUB_CLIENT_SECRET == <<"client-secret">>
ENCRYPTION_SECRETS == "K"
OtherSecret == "K2"

(* ------------------------------ URLs ---------------------------------- *)
UrlA == <<"https://", "a.example">>
UrlAx == <<"https://", "a.example", "/x">>
UrlB == <<"https://", "b.example", "/x">>
UrlBadPort == <<"https://", "a.example", ":port", "/x">>

PathSegments == {"/x", "/"}

\* new URL(s): the WHATWG parser rejects a non-numeric port and a string
\* without a scheme.
CanParseURL(s) ==
    /\ Len(s) >= 2
    /\ s[1] \in {"https://", "http://"}
    /\ ~Contains(s, ":port")

\* URL.href / URL.toString(): serialisation adds the root path when the
\* input has none.
Href(s) ==
    IF \E i \in 1..Len(s) : s[i] \in PathSegments THEN s ELSE Append(s, "/")

(* --------------------------- white list ------------------------------- *)
WHITE_LIST == << UrlA, <<"http://", "localhost">> >>

\* variant: the URL must equal an allowlist entry
isValidRedirectExact(url) ==
    \E i \in 1..Len(WHITE_LIST) : WHITE_LIST[i] = url

isValidRedirect(url) ==
    \E i \in 1..Len(WHITE_LIST) : IsPrefix(WHITE_LIST[i], url)

\* the helper as src/unnamed/part_000 defines it
OaIsValidRedirect(url) ==
    \E i \in 1..Len(WHITE_LIST) : IsPrefix(WHITE_LIST[i], url)

INVALID_REDIRECT_MSG == <<"redirect url not valid, see https://github.com/glink25/github-login">>

(* --------------------------- state codec ------------------------------ *)
\* lib/state: a token seals its payload and optional expiry under a key with
\* a fresh nonce; decoding fails for a string that is no token, for a token
\* sealed under another key, and for one whose expiry has passed.
NoExpiry == -1

AbsentToken == [fmt |-> "absent", payload |-> Absent, key |-> "", exp |-> NoExpiry, nonce |-> 0]
GarbageToken == [fmt |-> "garbage", payload |-> Absent, key |-> "", exp |-> NoExpiry, nonce |-> 0]

encodeState(value, password, expires, nonce) ==
    [fmt |-> "sealed", payload |-> value, key |-> password, exp |-> expires, nonce |-> nonce]

decodeState(token, password, time) ==
    IF token.fmt # "sealed"
        THEN [ok |-> FALSE, value |-> Absent, message |-> <<"Malformed state">>]
    ELSE IF token.key # password
        THEN [ok |-> FALSE, value |-> Absent, message |-> <<"Tampered state">>]
    ELSE IF token.exp # NoExpiry /\ time > token.exp
        THEN [ok |-> FALSE, value |-> Absent, message |-> <<"Expired state">>]
    ELSE [ok |-> TRUE, value |-> token.payload, message |-> Absent]

\* One year.  The model clock counts in years, so the validity period of a
\* session token is one tick.
TOKEN_VALIDITY_PERIOD == 1

(* ------------------------- upstream (GitHub) -------------------------- *)
GITHUB_APP_SLUG == <<"cent-accounting">>
GhAuthorizeUrl == <<"https://", "github.com", "/login/oauth/authorize">>
GhInstallUrl == <<"https://", "github.com", "/apps/">> \o GITHUB_APP_SLUG \o <<"/installations/new">>
GITHUB_OAUTH_AUTHORIZE_URL == <<"https://", "github.com", "/apps/oncent-accounting/installations/new/permissions">>
GITHUB_OAUTH_ACCESS_TOKEN_URL == <<"https://", "github.com", "/login/oauth/access_token">>
InstallationsUrl == <<"https://", "api.github.com", "/user/installations">>

NoTokenData == [access_token |-> Absent, refresh_token |-> Absent, error |-> Absent]

\* What the token endpoint can answer: the fetch (or the body parse) rejects,
\* a non-2xx status, or a 2xx JSON body.
TokenBodies ==
    { [access_token |-> <<"ghu_access">>, refresh_token |-> <<"ghr_refresh">>, error |-> Absent],
      [access_token |-> <<"ghu_access">>, refresh_token |-> Absent, error |-> Absent],
      [access_token |-> Absent, refresh_token |-> Absent, error |-> Absent],
      [access_token |-> Absent, refresh_token |-> Absent, error |-> <<"bad_verification_code">>],
      [access_token |-> <<"ghu_access">>, refresh_token |-> Absent, error |-> <<"slow_down">>] }

TokenResponses ==
    { [throws |-> TRUE, ok |-> FALSE, status |-> "", data |-> NoTokenData],
      [throws |-> FALSE, ok |-> FALSE, status |-> "404", data |-> NoTokenData] }
    \cup { [throws |-> FALSE, ok |-> TRUE, status |-> "200", data |-> d] : d \in TokenBodies }

InstallationsResponses ==
    { [throws |-> TRUE, ok |-> FALSE, status |-> "", total_count |-> 0, installations |-> 0],
      [throws |-> FALSE, ok |-> FALSE, status |-> "401", total_count |-> 0, installations |-> 0] }
    \cup { [throws |-> FALSE, ok |-> TRUE, status |-> "200", total_count |-> t, installations |-> n] :
              t \in 0..MaxInstall, n \in 0..MaxInstall }

NoTokenResponse == [throws |-> FALSE, ok |-> FALSE, status |-> "", data |-> NoTokenData]
NoInstallationsResponse ==
    [throws |-> FALSE, ok |-> FALSE, status |-> "", total_count |-> 0, installations |-> 0]

(* ------------------------------ requests ------------------------------ *)
NoLocation ==
    [target |-> Absent, client_id |-> Absent, target_type |-> Absent,
     redirect_uri |-> Absent, state |-> AbsentToken, error |-> Absent,
     github_authorized |-> NoTokenData,
     accessSession |-> AbsentToken, refreshSession |-> AbsentToken]

NoCall ==
    [url |-> Absent, client_id |-> Absent, client_secret |-> Absent, code |-> Absent,
     state |-> AbsentToken, bearer |-> Absent,
     grant_type |-> Absent, refresh_token |-> Absent]

IdleReq ==
    [pc |-> "idle", handler |-> "none", at |-> 0,
     redirect_uri |-> Absent, host |-> Absent, proto |-> Absent,
     code |-> Absent, state |-> AbsentToken, error |-> Absent,
     bodyOk |-> TRUE, refreshToken |-> Absent, session |-> AbsentToken,
     appReturnUrl |-> Absent, tokenData |-> NoTokenData,
     tokenResponse |-> NoTokenResponse, installationsResponse |-> NoInstallationsResponse,
     log |-> <<>>, calls |-> <<>>,
     status |-> 0, location |-> NoLocation, body |-> Absent,
     json |-> NoTokenData, token |-> Absent]

\* ${value} in a template string
Interpolated(value) == IF value = Absent THEN <<"undefined">> ELSE value

\* c.status(s); return c.json({error: msg})  /  throw new HTTPException(s, {message: msg})
Fail(q, s, msg) ==
    [q EXCEPT !.pc = "done", !.status = s, !.body = msg, !.log = Append(@, "respond")]

\* return c.redirect(loc)  (302 unless another status is given)
Redirect(q, loc) ==
    [q EXCEPT !.pc = "done", !.status = 302, !.location = loc, !.log = Append(@, "respond")]

\* an exception nothing catches: Hono's default error handler
InternalError(q) == Fail(q, 500, <<"Internal Server Error">>)

Logged(q, e) == [q EXCEPT !.log = Append(@, e)]

(* ------------------------------ inputs -------------------------------- *)
RedirectUris == {Absent, UrlAx, UrlB, UrlBadPort}
\* the Host and X-Forwarded-Proto headers of a request
Headers ==
    { [host |-> <<"gw.example">>, proto |-> <<"https">>],
      [host |-> <<"evil.example">>, proto |-> Absent] }
Codes == {Absent, <<"code1">>}
Errors == {Absent, <<"access_denied">>}

\* State values a browser can present: nothing, junk, a token sealed under
\* another secret, tokens minted by any replica of the service at any time
\* (with or without expiry), and whatever this run's responses handed out.
ReplicaTokens ==
    { AbsentToken, GarbageToken,
      encodeState(UrlAx, OtherSecret, NoExpiry, 0),
      encodeState(UrlAx, ENCRYPTION_SECRETS, 0, 0),
      encodeState(UrlAx, ENCRYPTION_SECRETS, NoExpiry, 0),
      encodeState(UrlB, ENCRYPTION_SECRETS, NoExpiry, 0),
      encodeState(UrlBadPort, ENCRYPTION_SECRETS, NoExpiry, 0) }

HandedOut ==
    { reqs[r].location.state : r \in Slots }
    \cup { reqs[r].location.accessSession : r \in Slots }
    \cup { reqs[r].location.refreshSession : r \in Slots }

StateInputs == ReplicaTokens \cup HandedOut

(* ------------------ GET /api/github-oauth/authorize ------------------- *)
\* variant: the allowlist test is left out
GhAuthorizeStepUnchecked(q, nonce) ==
    IF q.redirect_uri = Absent
        THEN Fail(q, 400, <<"redirect_uri is required.">>)
    ELSE Redirect(Logged(q, "encodeState"),
                  [NoLocation EXCEPT
                      !.target = GhAuthorizeUrl,
                      !.client_id = GITHUB_CLIENT_ID,
                      !.state = encodeState(q.redirect_uri, ENCRYPTION_SECRETS, NoExpiry, nonce)])

GhAuthorizeStep(q, nonce) ==
    IF q.redirect_uri = Absent
        THEN Fail(q, 400, <<"redirect_uri is required.">>)
    ELSE IF ~isValidRedirect(q.redirect_uri)
        THEN Fail(q, 400, INVALID_REDIRECT_MSG)
    ELSE Redirect(Logged(q, "encodeState"),
                  [NoLocation EXCEPT
                      !.target = GhAuthorizeUrl,
                      !.client_id = GITHUB_CLIENT_ID,
                      !.state = encodeState(q.redirect_uri, ENCRYPTION_SECRETS, NoExpiry, nonce)])

GhAuthorize(r) ==
    /\ reqs[r].pc = "idle"
    /\ \E uri \in RedirectUris, h \in Headers, nonce \in Nonces :
          reqs' = [reqs EXCEPT ![r] =
                     GhAuthorizeStep([IdleReq EXCEPT !.handler = "gh_authorize",
                                         !.redirect_uri = uri, !.host = h.host, !.proto = h.proto], nonce)]
    /\ UNCHANGED <<proxy, allow>>

(* --------------------- GET /api/oauth/authorize ----------------------- *)
OaAuthorizeStep(q, nonce) ==
    IF q.redirect_uri = Absent
        THEN Fail(q, 400, <<"redirect_uri is required.">>)
    ELSE IF ~OaIsValidRedirect(q.redirect_uri)
        THEN Fail(q, 400, INVALID_REDIRECT_MSG)
    ELSE LET proto == IF q.proto # Absent THEN q.proto ELSE <<"http">>
             redirect_uri == proto \o <<"://">> \o q.host \o <<"/api/oauth/authorized">>
         IN  \* the base URL already ends in a query string, so the "?" that
             \* joins the parameters lands inside the value of target_type
             Redirect(Logged(q, "encodeState"),
                  [NoLocation EXCEPT
                      !.target = GITHUB_OAUTH_AUTHORIZE_URL,
                      !.target_type = <<"User", "?client_id=">> \o GITHUB_CLIENT_ID,
                      !.redirect_uri = redirect_uri,
                      !.state = encodeState(q.redirect_uri, ENCRYPTION_SECRETS, NoExpiry, nonce)])

OaAuthorize(r) ==
    /\ reqs[r].pc = "idle"
    /\ \E uri \in RedirectUris, h \in Headers, nonce \in Nonces :
          reqs' = [reqs EXCEPT ![r] =
                     OaAuthorizeStep([IdleReq EXCEPT !.handler = "oa_authorize",
                                         !.redirect_uri = uri, !.host = h.host, !.proto = h.proto], nonce)]
    /\ UNCHANGED <<proxy, allow>>

\* The clock values decodeState may compare with the token's expiry; the
\* clock is not consulted for a token that carries none.
ClockReads(token) == IF token.exp # NoExpiry THEN Times ELSE {0}

(* ------------------ GET /api/github-oauth/authorized ------------------ *)
GhTokenCall(q) ==
    [NoCall EXCEPT !.url = GITHUB_OAUTH_ACCESS_TOKEN_URL, !.client_id = GITHUB_CLIENT_ID,
                   !.client_secret = GITHUB_CLIENT_SECRET, !.code = q.code]

GhInstallationsCall(accessToken) ==
    [NoCall EXCEPT !.url = InstallationsUrl, !.bearer = accessToken]

\* variant: the decoded return URL is not checked against the allowlist again
GhAuthorizedStartNoRevalidation(q, time) ==
    IF q.code = Absent \/ q.state.fmt = "absent"
        THEN Fail(q, 400, <<"Missing code or state query parameter.">>)
    ELSE LET d == decodeState(q.state, ENCRYPTION_SECRETS, time)
             q1 == Logged(q, "decodeState")
         IN  IF ~d.ok THEN Fail(q1, 400, d.message)
             ELSE IF ~CanParseURL(d.value) THEN InternalError(q1)
             ELSE [q1 EXCEPT !.pc = "await_token", !.appReturnUrl = d.value,
                             !.log = Append(@, "fetch_token"),
                             !.calls = Append(@, GhTokenCall(q))]

\* from the start of the handler to the awaited token fetch
GhAuthorizedStart(q, time) ==
    IF q.code = Absent \/ q.state.fmt = "absent"
        THEN Fail(q, 400, <<"Missing code or state query parameter.">>)
    ELSE LET d == decodeState(q.state, ENCRYPTION_SECRETS, time)
             q1 == Logged(q, "decodeState")
         IN  IF ~d.ok THEN Fail(q1, 400, d.message)
             ELSE IF ~isValidRedirect(d.value) THEN Fail(q1, 400, INVALID_REDIRECT_MSG)
             ELSE IF ~CanParseURL(d.value) THEN InternalError(q1)
             ELSE [q1 EXCEPT !.pc = "await_token", !.appReturnUrl = d.value,
                             !.log = Append(@, "fetch_token"),
                             !.calls = Append(@, GhTokenCall(q))]

\* variant: the body's error field and missing access token are not checked
GhAuthorizedTokenIgnoresError(q, resp) ==
    IF resp.throws THEN InternalError(q)
    ELSE IF ~resp.ok
        THEN Fail(q, 500, <<"Failed to exchange code for access token.">>)
    ELSE [q EXCEPT !.pc = "await_install", !.tokenData = resp.data,
                   !.log = @ \o <<"token_ok", "fetch_installations">>,
                   !.calls = Append(@, GhInstallationsCall(resp.data.access_token))]

\* variant: the token is handed to the return URL without the installation check
GhAuthorizedTokenNoInstallCheck(q, resp) ==
    IF resp.throws THEN InternalError(q)
    ELSE IF ~resp.ok
        THEN Fail(q, 500, <<"Failed to exchange code for access token.">>)
    ELSE IF resp.data.error # Absent \/ resp.data.access_token = Absent
        THEN Fail(q, 400, <<"GitHub returned an error: ">> \o Interpolated(resp.data.error))
    ELSE Redirect([q EXCEPT !.tokenData = resp.data, !.log = Append(@, "token_ok")],
                  [NoLocation EXCEPT !.target = Href(q.appReturnUrl),
                                     !.github_authorized = resp.data])

\* from the token response to the awaited installations fetch
GhAuthorizedToken(q, resp) ==
    IF resp.throws THEN InternalError(q)
    ELSE IF ~resp.ok
        THEN Fail(q, 500, <<"Failed to exchange code for access token.">>)
    ELSE IF resp.data.error # Absent \/ resp.data.access_token = Absent
        THEN Fail(q, 400, <<"GitHub returned an error: ">> \o Interpolated(resp.data.error))
    ELSE [q EXCEPT !.pc = "await_install", !.tokenData = resp.data,
                   !.log = @ \o <<"token_ok", "fetch_installations">>,
                   !.calls = Append(@, GhInstallationsCall(resp.data.access_token))]

\* variant: the token bundle travels along to the installation page
GhAuthorizedInstallationsTokenOnInstall(q, resp) ==
    IF resp.throws THEN InternalError(q)
    ELSE IF ~resp.ok
        THEN Fail(q, 500, <<"Failed to check app installation status.">>)
    ELSE IF resp.total_count > 0 /\ resp.installations > 0
        THEN Redirect(Logged(q, "installations_ok"),
                      [NoLocation EXCEPT !.target = Href(q.appReturnUrl),
                                         !.github_authorized = q.tokenData])
    ELSE Redirect(Logged(q, "installations_ok"),
                  [NoLocation EXCEPT !.target = GhInstallUrl, !.state = q.state,
                                     !.github_authorized = q.tokenData])

\* variant: the returning-user test looks at total_count alone
GhAuthorizedInstallationsCountOnly(q, resp) ==
    IF resp.throws THEN InternalError(q)
    ELSE IF ~resp.ok
        THEN Fail(q, 500, <<"Failed to check app installation status.">>)
    ELSE IF resp.total_count > 0
        THEN Redirect(Logged(q, "installations_ok"),
                      [NoLocation EXCEPT !.target = Href(q.appReturnUrl),
                                         !.github_authorized = q.tokenData])
    ELSE Redirect(Logged(q, "installations_ok"),
                  [NoLocation EXCEPT !.target = GhInstallUrl, !.state = q.state])

\* variant: the state forwarded to the installation page is minted anew
GhAuthorizedInstallationsRemint(q, resp) ==
    IF resp.throws THEN InternalError(q)
    ELSE IF ~resp.ok
        THEN Fail(q, 500, <<"Failed to check app installation status.">>)
    ELSE IF resp.total_count > 0 /\ resp.installations > 0
        THEN Redirect(Logged(q, "installations_ok"),
                      [NoLocation EXCEPT !.target = Href(q.appReturnUrl),
                                         !.github_authorized = q.tokenData])
    ELSE Redirect(Logged(q, "installations_ok"),
                  [NoLocation EXCEPT
                      !.target = GhInstallUrl,
                      !.state = encodeState(q.appReturnUrl, ENCRYPTION_SECRETS, NoExpiry,
                                            q.state.nonce + 1)])

\* variant: the returning-user test is off by one
GhAuthorizedInstallationsOffByOne(q, resp) ==
    IF resp.throws THEN InternalError(q)
    ELSE IF ~resp.ok
        THEN Fail(q, 500, <<"Failed to check app installation status.">>)
    ELSE IF resp.total_count > 1 /\ resp.installations > 0
        THEN Redirect(Logged(q, "installations_ok"),
                      [NoLocation EXCEPT !.target = Href(q.appReturnUrl),
                                         !.github_authorized = q.tokenData])
    ELSE Redirect(Logged(q, "installations_ok"),
                  [NoLocation EXCEPT !.target = GhInstallUrl, !.state = q.state])

\* from the installations response to the redirect
GhAuthorizedInstallations(q, resp) ==
    IF resp.throws THEN InternalError(q)
    ELSE IF ~resp.ok
        THEN Fail(q, 500, <<"Failed to check app installation status.">>)
    ELSE IF resp.total_count > 0 /\ resp.installations > 0
        THEN Redirect(Logged(q, "installations_ok"),
                      [NoLocation EXCEPT !.target = Href(q.appReturnUrl),
                                         !.github_authorized = q.tokenData])
    ELSE Redirect(Logged(q, "installations_ok"),
                  [NoLocation EXCEPT !.target = GhInstallUrl, !.state = q.state])

GhAuthorized(r) ==
    /\ reqs[r].pc = "idle"
    /\ \E code \in Codes, state \in StateInputs, error \in Errors :
        \E time \in ClockReads(state) :
          reqs' = [reqs EXCEPT ![r] =
                     GhAuthorizedStart([IdleReq EXCEPT !.handler = "gh_authorized", !.at = time,
                                           !.code = code, !.state = state, !.error = error],
                                       time)]
    /\ UNCHANGED <<proxy, allow>>

GhTokenResponse(r) ==
    /\ reqs[r].handler = "gh_authorized"
    /\ reqs[r].pc = "await_token"
    /\ \E resp \in TokenResponses :
          reqs' = [reqs EXCEPT ![r] =
                     GhAuthorizedToken([reqs[r] EXCEPT !.tokenResponse = resp], resp)]
    /\ UNCHANGED <<proxy, allow>>

GhInstallationsResponse(r) ==
    /\ reqs[r].handler = "gh_authorized"
    /\ reqs[r].pc = "await_install"
    /\ \E resp \in InstallationsResponses :
          reqs' = [reqs EXCEPT ![r] =
                     GhAuthorizedInstallations([reqs[r] EXCEPT !.installationsResponse = resp], resp)]
    /\ UNCHANGED <<proxy, allow>>

(* --------------------- GET /api/oauth/authorized ---------------------- *)
OaTokenCall(q) ==
    [NoCall EXCEPT !.url = GITHUB_OAUTH_ACCESS_TOKEN_URL, !.client_id = GITHUB_CLIENT_ID,
                   !.client_secret = GITHUB_CLIENT_SECRET, !.code = q.code, !.state = q.state]

\* variant: a provider error is answered before the decoded URL is checked
OaAuthorizedStartErrorFirst(q, time) ==
    LET d == decodeState(q.state, ENCRYPTION_SECRETS, time)
        q1 == Logged(q, "decodeState")
    IN  IF ~d.ok THEN Fail(q1, 400, d.message)
        ELSE IF q.error # Absent /\ CanParseURL(d.value)
            THEN Redirect([q1 EXCEPT !.appReturnUrl = d.value],
                          [NoLocation EXCEPT !.target = Href(d.value)])
        ELSE IF ~OaIsValidRedirect(d.value) THEN Fail(q1, 400, INVALID_REDIRECT_MSG)
        ELSE IF ~CanParseURL(d.value) THEN InternalError(q1)
        ELSE IF q.error # Absent
            THEN Redirect([q1 EXCEPT !.appReturnUrl = d.value],
                          [NoLocation EXCEPT !.target = Href(d.value)])
        ELSE IF q.code = Absent \/ q.state.fmt = "absent"
            THEN Fail(q1, 400, <<"code and state are required.">>)
        ELSE [q1 EXCEPT !.pc = "await_token", !.appReturnUrl = d.value,
                        !.log = Append(@, "fetch_token"),
                        !.calls = Append(@, OaTokenCall(q))]

\* variant: the presence of code is not checked before the exchange
OaAuthorizedStartCodeUnchecked(q, time) ==
    LET d == decodeState(q.state, ENCRYPTION_SECRETS, time)
        q1 == Logged(q, "decodeState")
    IN  IF ~d.ok THEN Fail(q1, 400, d.message)
        ELSE IF ~OaIsValidRedirect(d.value) THEN Fail(q1, 400, INVALID_REDIRECT_MSG)
        ELSE IF ~CanParseURL(d.value) THEN InternalError(q1)
        ELSE IF q.error # Absent
            THEN Redirect([q1 EXCEPT !.appReturnUrl = d.value],
                          [NoLocation EXCEPT !.target = Href(d.value)])
        ELSE [q1 EXCEPT !.pc = "await_token", !.appReturnUrl = d.value,
                        !.log = Append(@, "fetch_token"),
                        !.calls = Append(@, OaTokenCall(q))]

\* from the start of the handler to the awaited token fetch
OaAuthorizedStart(q, time) ==
    LET d == decodeState(q.state, ENCRYPTION_SECRETS, time)
        q1 == Logged(q, "decodeState")
    IN  IF ~d.ok THEN Fail(q1, 400, d.message)
        ELSE IF ~OaIsValidRedirect(d.value) THEN Fail(q1, 400, INVALID_REDIRECT_MSG)
        ELSE IF ~CanParseURL(d.value) THEN InternalError(q1)
        ELSE IF q.error # Absent
            \* rUrl carries the error, but the redirect goes to returnUrl.href
            THEN Redirect([q1 EXCEPT !.appReturnUrl = d.value],
                          [NoLocation EXCEPT !.target = Href(d.value)])
        ELSE IF q.code = Absent \/ q.state.fmt = "absent"
            THEN Fail(q1, 400, <<"code and state are required.">>)
        ELSE [q1 EXCEPT !.pc = "await_token", !.appReturnUrl = d.value,
                        !.log = Append(@, "fetch_token"),
                        !.calls = Append(@, OaTokenCall(q))]

\* variant: the status of the token response is not looked at
OaAuthorizedTokenStatusUnchecked(q, resp, time, n1, n2, encThrows) ==
    IF resp.throws THEN Fail(q, 503, <<"fetch failed">>)
    ELSE LET accessToken == resp.data.access_token
             refreshToken == resp.data.refresh_token
             q1 == [q EXCEPT !.tokenData = resp.data,
                             !.log = @ \o <<"token_ok", "encodeState", "encodeState">>]
         IN  IF encThrows /\ (accessToken = Absent \/ refreshToken = Absent)
                 THEN InternalError(q1)
             ELSE Redirect(q1,
                     [NoLocation EXCEPT
                         !.target = Href(q.appReturnUrl),
                         !.accessSession =
                             encodeState(accessToken, ENCRYPTION_SECRETS,
                                         time + TOKEN_VALIDITY_PERIOD, n1),
                         !.refreshSession =
                             encodeState(refreshToken, ENCRYPTION_SECRETS,
                                         time + TOKEN_VALIDITY_PERIOD, n2)])

\* from the token response to the redirect.  encodeState is handed the
\* access and refresh tokens as they are; for a token the body lacks it
\* receives undefined, which lib/state either seals or rejects (encThrows).
OaAuthorizedToken(q, resp, time, n1, n2, encThrows) ==
    IF resp.throws THEN Fail(q, 503, <<"fetch failed">>)
    ELSE IF ~resp.ok
        THEN Fail(q, 503, <<"Access token response had status ", resp.status, ".">>)
    ELSE LET accessToken == resp.data.access_token
             refreshToken == resp.data.refresh_token
             q1 == [q EXCEPT !.tokenData = resp.data,
                             !.log = @ \o <<"token_ok", "encodeState", "encodeState">>]
         IN  IF encThrows /\ (accessToken = Absent \/ refreshToken = Absent)
                 THEN InternalError(q1)
             ELSE Redirect(q1,
                     [NoLocation EXCEPT
                         !.target = Href(q.appReturnUrl),
                         !.accessSession =
                             encodeState(accessToken, ENCRYPTION_SECRETS,
                                         time + TOKEN_VALIDITY_PERIOD, n1),
                         !.refreshSession =
                             encodeState(refreshToken, ENCRYPTION_SECRETS,
                                         time + TOKEN_VALIDITY_PERIOD, n2)])

OaAuthorized(r) ==
    /\ reqs[r].pc = "idle"
    /\ \E code \in Codes, state \in StateInputs, error \in Errors :
        \E time \in ClockReads(state) :
          reqs' = [reqs EXCEPT ![r] =
                     OaAuthorizedStart([IdleReq EXCEPT !.handler = "oa_authorized", !.at = time,
                                           !.code = code, !.state = state, !.error = error],
                                       time)]
    /\ UNCHANGED <<proxy, allow>>

OaTokenResponse(r) ==
    /\ reqs[r].handler = "oa_authorized"
    /\ reqs[r].pc = "await_token"
    /\ \E resp \in TokenResponses, n1 \in Nonces, n2 \in Nonces, encThrows \in BOOLEAN :
        \E time \in {t \in Times : t >= reqs[r].at} :
          reqs' = [reqs EXCEPT ![r] =
                     OaAuthorizedToken([reqs[r] EXCEPT !.tokenResponse = resp],
                                       resp, time, n1, n2, encThrows)]
    /\ UNCHANGED <<proxy, allow>>

\* return c.json(...) with status 200
Ok(q) == [q EXCEPT !.pc = "done", !.status = 200, !.log = Append(@, "respond")]

(* ---------------- POST /api/github-oauth/refresh-token ---------------- *)
RefreshTokens == {Absent, <<"ghr_refresh">>}

GhRefreshCall(q) ==
    [NoCall EXCEPT !.url = GITHUB_OAUTH_ACCESS_TOKEN_URL, !.client_id = GITHUB_CLIENT_ID,
                   !.client_secret = GITHUB_CLIENT_SECRET,
                   !.grant_type = <<"refresh_token">>, !.refresh_token = q.refreshToken]

\* variant: a refresh is refused while another request awaits the provider
GhRefreshTokenStartBusy(q) ==
    IF ~q.bodyOk THEN InternalError(q)
    ELSE IF q.refreshToken = Absent
        THEN Fail(q, 500, <<"invalid refresh token.">>)
    ELSE IF \E r \in Slots : reqs[r].pc \in {"await_token", "await_install"}
        THEN Fail(q, 503, <<"busy">>)
    ELSE [q EXCEPT !.pc = "await_token",
                   !.log = Append(@, "fetch_token"),
                   !.calls = Append(@, GhRefreshCall(q))]

\* from the start of the handler to the awaited refresh-grant POST; a body
\* that is not JSON makes c.req.json() reject, which nothing catches
GhRefreshTokenStart(q) ==
    IF ~q.bodyOk THEN InternalError(q)
    ELSE IF q.refreshToken = Absent
        THEN Fail(q, 500, <<"invalid refresh token.">>)
    ELSE [q EXCEPT !.pc = "await_token",
                   !.log = Append(@, "fetch_token"),
                   !.calls = Append(@, GhRefreshCall(q))]

\* variant: the body's error field and missing access token are not checked
GhRefreshTokenAnswerIgnoresError(q, resp) ==
    IF resp.throws THEN InternalError(q)
    ELSE IF ~resp.ok
        THEN Fail(q, 500, <<"Failed to exchange code for access token.">>)
    ELSE Ok([q EXCEPT !.tokenData = resp.data, !.json = resp.data,
                      !.log = Append(@, "token_ok")])

\* variant: a refused refresh grant is posted once more
GhRefreshTokenAnswerRetries(q, resp) ==
    IF resp.throws THEN InternalError(q)
    ELSE IF ~resp.ok
        THEN IF Len(q.calls) < 2
                 THEN [q EXCEPT !.log = Append(@, "fetch_token"),
                                !.calls = Append(@, GhRefreshCall(q))]
             ELSE Fail(q, 500, <<"Failed to exchange code for access token.">>)
    ELSE IF resp.data.error # Absent \/ resp.data.access_token = Absent
        THEN Fail(q, 400, <<"GitHub returned an error: ">> \o Interpolated(resp.data.error))
    ELSE Ok([q EXCEPT !.tokenData = resp.data, !.json = resp.data,
                      !.log = Append(@, "token_ok")])

\* variant: the refusal message quotes the request that was posted
GhRefreshTokenAnswerEchoesRequest(q, resp) ==
    IF resp.throws THEN InternalError(q)
    ELSE IF ~resp.ok
        THEN Fail(q, 500, <<"Failed to exchange code for access token: ">>
                              \o q.calls[1].client_id \o q.calls[1].client_secret)
    ELSE IF resp.data.error # Absent \/ resp.data.access_token = Absent
        THEN Fail(q, 400, <<"GitHub returned an error: ">> \o Interpolated(resp.data.error))
    ELSE Ok([q EXCEPT !.tokenData = resp.data, !.json = resp.data,
                      !.log = Append(@, "token_ok")])

\* from the refresh-grant response to the JSON answer
GhRefreshTokenAnswer(q, resp) ==
    IF resp.throws THEN InternalError(q)
    ELSE IF ~resp.ok
        THEN Fail(q, 500, <<"Failed to exchange code for access token.">>)
    ELSE IF resp.data.error # Absent \/ resp.data.access_token = Absent
        THEN Fail(q, 400, <<"GitHub returned an error: ">> \o Interpolated(resp.data.error))
    ELSE Ok([q EXCEPT !.tokenData = resp.data, !.json = resp.data,
                      !.log = Append(@, "token_ok")])

GhRefreshToken(r) ==
    /\ reqs[r].pc = "idle"
    /\ \E bodyOk \in BOOLEAN, refreshToken \in RefreshTokens :
          /\ (~bodyOk => refreshToken = Absent)
          /\ reqs' = [reqs EXCEPT ![r] =
                        GhRefreshTokenStart([IdleReq EXCEPT !.handler = "gh_refresh",
                                                !.bodyOk = bodyOk,
                                                !.refreshToken = refreshToken])]
    /\ UNCHANGED <<proxy, allow>>

GhRefreshResponse(r) ==
    /\ reqs[r].handler = "gh_refresh"
    /\ reqs[r].pc = "await_token"
    /\ \E resp \in TokenResponses :
          reqs' = [reqs EXCEPT ![r] =
                     GhRefreshTokenAnswer([reqs[r] EXCEPT !.tokenResponse = resp], resp)]
    /\ UNCHANGED <<proxy, allow>>

(* ------------------------ POST /api/oauth/token ----------------------- *)
\* variant: the session is opened with another secret than it was sealed with
OaTokenStepOtherSecret(q, time) ==
    IF ~q.bodyOk THEN InternalError(q)
    ELSE IF q.session.fmt = "absent"
        THEN Fail(q, 400, <<"Unable to parse request body.">>)
    ELSE LET d == decodeState(q.session, OtherSecret, time)
             q1 == Logged(q, "decodeState")
         IN  IF ~d.ok THEN Fail(q1, 400, d.message)
             ELSE Ok([q1 EXCEPT !.token = d.value])

\* variant: a session that an earlier request unwrapped is refused
OaTokenStepSingleUse(q, time) ==
    IF ~q.bodyOk THEN InternalError(q)
    ELSE IF q.session.fmt = "absent"
        THEN Fail(q, 400, <<"Unable to parse request body.">>)
    ELSE IF \E r \in Slots : /\ reqs[r].handler = "oa_token"
                             /\ reqs[r].status = 200
                             /\ reqs[r].session = q.session
        THEN Fail(q, 400, <<"Session already used">>)
    ELSE LET d == decodeState(q.session, ENCRYPTION_SECRETS, time)
             q1 == Logged(q, "decodeState")
         IN  IF ~d.ok THEN Fail(q1, 400, d.message)
             ELSE Ok([q1 EXCEPT !.token = d.value])

\* the whole handler: it awaits nothing but the codec
OaTokenStep(q, time) ==
    IF ~q.bodyOk THEN InternalError(q)
    ELSE IF q.session.fmt = "absent"
        THEN Fail(q, 400, <<"Unable to parse request body.">>)
    ELSE LET d == decodeState(q.session, ENCRYPTION_SECRETS, time)
             q1 == Logged(q, "decodeState")
         IN  IF ~d.ok THEN Fail(q1, 400, d.message)
             ELSE Ok([q1 EXCEPT !.token = d.value])

OaToken(r) ==
    /\ reqs[r].pc = "idle"
    /\ \E bodyOk \in BOOLEAN, session \in StateInputs :
        \E time \in ClockReads(session) :
          /\ (~bodyOk => session = AbsentToken)
          /\ reqs' = [reqs EXCEPT ![r] =
                        OaTokenStep([IdleReq EXCEPT !.handler = "oa_token", !.at = time,
                                        !.bodyOk = bodyOk, !.session = session], time)]
    /\ UNCHANGED <<proxy, allow>>

(* ------------------------------- /proxy ------------------------------- *)
\* Two handlers answer /proxy: Ix* is app.all("/proxy") of src/src/index.ts,
\* Rt* is proxyRouter.all("/proxy") of src/src/routes/proxy.ts.  Methods and
\* bodies are plain strings ("" when absent); a header list is a set of
\* name/value pairs.

\* String.prototype.toUpperCase on the method names that occur
toUpperCase(m) ==
    CASE m = "get" -> "GET"
      [] m = "head" -> "HEAD"
      [] m = "patch" -> "PATCH"
      [] m = "propfind" -> "PROPFIND"
      [] OTHER -> m

\* a Headers object keeps its names in lower case
LowerName(n) ==
    CASE n = "Origin" -> "origin"
      [] n = "Host" -> "host"
      [] n = "Authorization" -> "authorization"
      [] n = "Content-Security-Policy" -> "content-security-policy"
      [] n = "X-Content-Security-Policy" -> "x-content-security-policy"
      [] n = "X-Frame-Options" -> "x-frame-options"
      [] n = "Access-Control-Allow-Origin" -> "access-control-allow-origin"
      [] n = "Content-Type" -> "content-type"
      [] OTHER -> n

\* new Headers(init)
NewHeaders(init) == { [name |-> LowerName(h.name), value |-> h.value] : h \in init }

\* Headers.prototype.delete(name)
HeadersDelete(headers, name) == { h \in headers : h.name # LowerName(name) }

ProxyUrls == { Absent, <<"/x">>, <<"https://", "dav.example">> }
Methods == {"GET", "HEAD", "POST", "patch"}
OverrideMethods == {"", "propfind", "PROPFIND", "head"}
Bodies == {"", "<propfind/>"}

InboundHeaders ==
    { [name |-> "Origin", value |-> "https://a.example"],
      [name |-> "host", value |-> "gw.example"],
      [name |-> "Authorization", value |-> "Basic dXNlcg=="] }

\* what the target can answer: the fetch rejects, or a response with any of
\* these headers
TargetHeaders ==
    { [name |-> "Content-Security-Policy", value |-> "default-src 'none'"],
      [name |-> "X-Content-Security-Policy", value |-> "default-src 'none'"],
      [name |-> "x-frame-options", value |-> "DENY"],
      [name |-> "Access-Control-Allow-Origin", value |-> "https://dav.example"],
      [name |-> "Content-Type", value |-> "application/xml"] }

NoTargetResponse == [throws |-> FALSE, message |-> Absent, status |-> 0, headers |-> {}, body |-> ""]

TargetResponses ==
    { [NoTargetResponse EXCEPT !.throws = TRUE, !.message = <<"fetch failed">>] }
    \cup { [NoTargetResponse EXCEPT !.status = 207, !.headers = hs, !.body = "<multistatus/>"] :
              hs \in SUBSET TargetHeaders }
    \cup { [NoTargetResponse EXCEPT !.status = 404, !.headers = hs] :
              hs \in SUBSET TargetHeaders }

IdleProxy ==
    [pc |-> "idle", handler |-> "none",
     url |-> Absent, method |-> "", override |-> "", headers |-> {}, body |-> "",
     bodyRead |-> FALSE, sent |-> <<>>, targetResponse |-> NoTargetResponse,
     status |-> 0, text |-> Absent, resHeaders |-> {}, resBody |-> ""]

\* return c.text(msg, s)
ProxyText(q, s, msg) == [q EXCEPT !.pc = "done", !.status = s, !.text = msg]

\* the request handed to fetch
Forwarded(q, method, headers, reads) ==
    [url |-> Href(q.url), method |-> method, headers |-> headers,
     hasBody |-> reads, body |-> IF reads THEN q.body ELSE ""]

\* variant: the Host header is left in place
RtProxyStartKeepsHost(q) ==
    IF q.url = Absent THEN ProxyText(q, 400, <<"Missing \"url\" query parameter.">>)
    ELSE IF ~CanParseURL(q.url) THEN ProxyText(q, 400, <<"Invalid target URL format.">>)
    ELSE LET headers == HeadersDelete(NewHeaders(q.headers), "Origin")
             method == toUpperCase(IF q.override # "" THEN q.override ELSE q.method)
             reads == method # "GET" /\ method # "HEAD"
         IN  [q EXCEPT !.pc = "await_fetch", !.bodyRead = reads,
                       !.sent = Append(@, Forwarded(q, method, headers, reads))]

\* variant: a target that does not parse is forwarded to all the same
RtProxyStartUrlUnparsed(q) ==
    IF q.url = Absent THEN ProxyText(q, 400, <<"Missing \"url\" query parameter.">>)
    ELSE LET headers == HeadersDelete(HeadersDelete(NewHeaders(q.headers), "Origin"), "Host")
             method == toUpperCase(IF q.override # "" THEN q.override ELSE q.method)
             reads == method # "GET" /\ method # "HEAD"
         IN  [q EXCEPT !.pc = "await_fetch", !.bodyRead = reads,
                       !.sent = Append(@, Forwarded(q, method, headers, reads))]

\* routes/proxy.ts, from the start of the handler to the awaited fetch
RtProxyStart(q) ==
    IF q.url = Absent THEN ProxyText(q, 400, <<"Missing \"url\" query parameter.">>)
    ELSE IF ~CanParseURL(q.url) THEN ProxyText(q, 400, <<"Invalid target URL format.">>)
    ELSE LET headers == HeadersDelete(HeadersDelete(NewHeaders(q.headers), "Origin"), "Host")
             method == toUpperCase(IF q.override # "" THEN q.override ELSE q.method)
             reads == method # "GET" /\ method # "HEAD"
         IN  [q EXCEPT !.pc = "await_fetch", !.bodyRead = reads,
                       !.sent = Append(@, Forwarded(q, method, headers, reads))]

\* variant: the X-Frame-Options header is relayed
RtProxyAnswerKeepsFrameOptions(q, resp) ==
    IF resp.throws
        THEN ProxyText(q, 502, <<"Failed to fetch target URL: ", "TypeError: ">> \o resp.message)
    ELSE LET h0 == NewHeaders(resp.headers)
             h1 == HeadersDelete(h0, "Content-Security-Policy")
             h3 == HeadersDelete(h1, "Access-Control-Allow-Origin")
         IN  [q EXCEPT !.pc = "done", !.status = resp.status,
                       !.resHeaders = h3, !.resBody = resp.body]

\* routes/proxy.ts, from the target's answer to the relayed response
RtProxyAnswer(q, resp) ==
    IF resp.throws
        THEN ProxyText(q, 502, <<"Failed to fetch target URL: ", "TypeError: ">> \o resp.message)
    ELSE LET h0 == NewHeaders(resp.headers)
             h1 == HeadersDelete(h0, "Content-Security-Policy")
             h2 == HeadersDelete(h1, "X-Frame-Options")
             h3 == HeadersDelete(h2, "Access-Control-Allow-Origin")
         IN  [q EXCEPT !.pc = "done", !.status = resp.status,
                       !.resHeaders = h3, !.resBody = resp.body]

\* index.ts, from the start of the handler to the awaited fetch; the method
\* query parameter is not read
IxProxyStart(q) ==
    IF q.url = Absent
        THEN ProxyText(q, 400, <<"Missing \"url\" query parameter. Usage: /proxy?url=https://example.com/api">>)
    ELSE IF ~CanParseURL(q.url) THEN ProxyText(q, 400, <<"Invalid target URL format.">>)
    ELSE LET headers == HeadersDelete(HeadersDelete(NewHeaders(q.headers), "Origin"), "Host")
             reads == q.method # "GET" /\ q.method # "HEAD"
         IN  [q EXCEPT !.pc = "await_fetch", !.bodyRead = reads,
                       !.sent = Append(@, Forwarded(q, q.method, headers, reads))]

\* index.ts, from the target's answer to the relayed response
IxProxyAnswer(q, resp) ==
    IF resp.throws
        THEN ProxyText(q, 502, <<"Failed to fetch target URL: ">> \o resp.message)
    ELSE LET h0 == NewHeaders(resp.headers)
             h1 == HeadersDelete(h0, "Content-Security-Policy")
             h2 == HeadersDelete(h1, "X-Content-Security-Policy")
             h3 == HeadersDelete(h2, "X-Frame-Options")
             h4 == HeadersDelete(h3, "Access-Control-Allow-Origin")
         IN  [q EXCEPT !.pc = "done", !.status = resp.status,
                       !.resHeaders = h4, !.resBody = resp.body]

ProxyRequests(handler) ==
    { [IdleProxy EXCEPT !.handler = handler, !.url = url, !.method = method,
                        !.override = override, !.headers = headers, !.body = body] :
          url \in ProxyUrls, method \in Methods, override \in OverrideMethods,
          headers \in SUBSET InboundHeaders, body \in Bodies }

RtProxy ==
    /\ proxy.pc = "idle"
    /\ \E q \in ProxyRequests("rt_proxy") : proxy' = RtProxyStart(q)
    /\ UNCHANGED <<reqs, allow>>

RtProxyResponse ==
    /\ proxy.handler = "rt_proxy"
    /\ proxy.pc = "await_fetch"
    /\ \E resp \in TargetResponses :
          proxy' = RtProxyAnswer([proxy EXCEPT !.targetResponse = resp], resp)
    /\ UNCHANGED <<reqs, allow>>

IxProxy ==
    /\ proxy.pc = "idle"
    /\ \E q \in ProxyRequests("ix_proxy") : proxy' = IxProxyStart(q)
    /\ UNCHANGED <<reqs, allow>>

IxProxyResponse ==
    /\ proxy.handler = "ix_proxy"
    /\ proxy.pc = "await_fetch"
    /\ \E resp \in TargetResponses :
          proxy' = IxProxyAnswer([proxy EXCEPT !.targetResponse = resp], resp)
    /\ UNCHANGED <<reqs, allow>>

(* --------------------------- isValidRedirect -------------------------- *)
MaxUrlLen == 3
UrlSegments ==
    {"https://", "HTTPS://", "http://", "a.example", "A.example", "localhost", ".evil.com", "/x"}

RECURSIVE SeqsUpTo(_, _)
SeqsUpTo(S, n) ==
    IF n = 0 THEN {<<>>}
    ELSE LET shorter == SeqsUpTo(S, n - 1)
         IN  shorter \cup { Append(u, e) : u \in shorter, e \in S }

CandidateUrls == SeqsUpTo(UrlSegments, MaxUrlLen)

IdleAllow == [pc |-> "idle", url |-> Absent, gh |-> FALSE, oa |-> FALSE]

\* both helpers applied to one URL
CheckRedirect ==
    /\ allow.pc = "idle"
    /\ \E url \in CandidateUrls :
          allow' = [pc |-> "done", url |-> url,
                    gh |-> isValidRedirect(url), oa |-> OaIsValidRedirect(url)]
    /\ UNCHANGED <<reqs, proxy>>

(* ------------------------------ behaviour ----------------------------- *)
Init ==
    /\ reqs = [r \in Slots |-> IdleReq]
    /\ proxy = IdleProxy
    /\ allow = IdleAllow

Next ==
    \/ \E r \in Slots : GhAuthorize(r)
    \/ \E r \in Slots : OaAuthorize(r)
    \/ \E r \in Slots : GhAuthorized(r)
    \/ \E r \in Slots : GhTokenResponse(r)
    \/ \E r \in Slots : GhInstallationsResponse(r)
    \/ \E r \in Slots : OaAuthorized(r)
    \/ \E r \in Slots : OaTokenResponse(r)
    \/ \E r \in Slots : GhRefreshToken(r)
    \/ \E r \in Slots : GhRefreshResponse(r)
    \/ \E r \in Slots : OaToken(r)

Spec == Init /\ [][Next]_vars

\* the proxies alone
ProxyNext ==
    \/ RtProxy
    \/ RtProxyResponse
    \/ IxProxy
    \/ IxProxyResponse

ProxySpec == Init /\ [][ProxyNext]_vars

\* the allowlist helpers alone
AllowNext == CheckRedirect

AllowSpec == Init /\ [][AllowNext]_vars

\* Requests share no state, so a behaviour that exercises the OAuth handlers
\* and one that exercises a proxy are checked side by side.
AllNext ==
    \/ proxy = IdleProxy /\ Next
    \/ reqs = [r \in Slots |-> IdleReq] /\ ProxyNext

AllSpec == Init /\ [][AllNext]_vars

\* Every pair of OAuth requests interleaved, and a proxy request interleaved
\* with a refresh, which the app of index.ts serves together.
ConcurrentNext ==
    \/ proxy = IdleProxy /\ Next
    \/ /\ reqs["r2"] = IdleReq
       /\ reqs["r1"].handler \in {"none", "gh_refresh"}
       /\ \/ ProxyNext
          \/ GhRefreshToken("r1")
          \/ GhRefreshResponse("r1")

ConcurrentSpec == Init /\ [][ConcurrentNext]_vars

(* ====================================================================== *)
(*                               properties                               *)
(* ====================================================================== *)
AuthorizeHandlers == {"gh_authorize", "oa_authorize"}
CallbackHandlers == {"gh_authorized", "oa_authorized"}

\* the allowlist rule as the specification words it, written against the
\* configured prefixes and not through the handlers' helper
MatchesNoPrefix(url) ==
    \A i \in 1..Len(WHITE_LIST) :
        \/ Len(url) < Len(WHITE_LIST[i])
        \/ SubSeq(url, 1, Len(WHITE_LIST[i])) # WHITE_LIST[i]

CallUrls(q) == { q.calls[i].url : i \in 1..Len(q.calls) }

\* C1: an authorize request whose redirect_uri is absent or starts with no
\* allowlisted prefix is answered 400 with an error body, is not redirected
\* to the provider, and never reaches encodeState (both authorize handlers).
C1_AuthorizeRejectsUnlisted ==
    \A r \in Slots :
        LET q == reqs[r] IN
        (q.handler \in AuthorizeHandlers /\ MatchesNoPrefix(q.redirect_uri))
            => /\ q.pc = "done"
               /\ q.status = 400
               /\ q.body # Absent
               /\ q.location = NoLocation
               /\ Count(q.log, "encodeState") = 0

\* both handlers have turned away a present but unlisted redirect_uri
C1_Witness ==
    /\ reqs["r1"].handler = "gh_authorize" /\ reqs["r1"].redirect_uri = UrlB
    /\ reqs["r1"].status = 400
    /\ reqs["r2"].handler = "oa_authorize" /\ reqs["r2"].redirect_uri = UrlB
    /\ reqs["r2"].status = 400

\* C2: a successful authorize sends the provider the client identifier and
\* the state token and nothing else: no callback URL, and nothing that
\* depends on the Host / X-Forwarded-Proto headers, so two requests that
\* differ only in those headers agree on every parameter but the state.
C2_NoCallbackUrlToProvider ==
    \A r \in Slots :
        LET q == reqs[r] IN
        (q.handler \in AuthorizeHandlers /\ q.status = 302)
            => /\ q.location.redirect_uri = Absent
               /\ q.location.client_id = GITHUB_CLIENT_ID
               /\ q.location.target_type = Absent
               /\ \A r2 \in Slots :
                     (reqs[r2].handler = q.handler /\ reqs[r2].status = 302
                        /\ reqs[r2].redirect_uri = q.redirect_uri)
                     => [reqs[r2].location EXCEPT !.state = AbsentToken]
                          = [q.location EXCEPT !.state = AbsentToken]

(* ----------------------- callback vocabulary -------------------------- *)
\* the token exchange succeeded: HTTP success, no error field, a token
TokenSucceeded(resp) ==
    /\ ~resp.throws
    /\ resp.ok
    /\ resp.data.error = Absent
    /\ resp.data.access_token # Absent

TokenAnswered(q) == q.tokenResponse # NoTokenResponse

CarriesCredentials(loc) ==
    \/ loc.github_authorized # NoTokenData
    \/ loc.accessSession # AbsentToken
    \/ loc.refreshSession # AbsentToken

\* the state value does not decode at the time the request reads the clock
Undecodable(q) ==
    \/ q.state.fmt # "sealed"
    \/ q.state.key # ENCRYPTION_SECRETS
    \/ (q.state.exp # NoExpiry /\ q.at > q.state.exp)

Before(log, a, b) ==
    /\ FirstIndex(log, a) > 0
    /\ FirstIndex(log, a) < FirstIndex(log, b)

\* the terminal outcomes of a callback
IsErrorResponse(q) == q.status >= 400 /\ q.location = NoLocation
IsDashboardRedirect(q) ==
    /\ q.status = 302
    /\ q.location.target = Href(q.state.payload)
    /\ CarriesCredentials(q.location)
IsInstallRedirect(q) ==
    /\ q.status = 302
    /\ q.location.target = GhInstallUrl
    /\ ~CarriesCredentials(q.location)
\* a redirect back to the return URL with no credentials on it
IsBareReturnRedirect(q) ==
    /\ q.status = 302
    /\ q.location.target = Href(q.state.payload)
    /\ ~CarriesCredentials(q.location)

Truth(b) == IF b THEN 1 ELSE 0

C4_InstallationsAfterTokenSuccess ==
    \A r \in Slots :
        LET q == reqs[r] IN
        q.handler \in CallbackHandlers
            => /\ InstallationsUrl \in CallUrls(q)
                   => /\ Len(q.calls) = 2
                      /\ q.calls[1].url = GITHUB_OAUTH_ACCESS_TOKEN_URL
                      /\ q.calls[2].url = InstallationsUrl
                      /\ TokenSucceeded(q.tokenResponse)
                      /\ q.calls[2].bearer = q.tokenResponse.data.access_token
                      /\ Before(q.log, "fetch_token", "token_ok")
                      /\ Before(q.log, "token_ok", "fetch_installations")
               /\ (TokenAnswered(q) /\ ~TokenSucceeded(q.tokenResponse))
                   => InstallationsUrl \notin CallUrls(q)

\* one callback waits for the installation listing, another one has seen its
\* token exchange fail
C4_Witness ==
    /\ reqs["r1"].handler = "gh_authorized" /\ reqs["r1"].pc = "await_install"
    /\ reqs["r2"].handler = "gh_authorized" /\ TokenAnswered(reqs["r2"])
    /\ ~TokenSucceeded(reqs["r2"].tokenResponse)

\* C5: a token exchange answered with a non-success status, or with a body
\* that carries an error field or lacks the access token, ends the callback
\* in an error response: no redirect to the return URL, no credentials on
\* any URL, no installation listing.
C5_FailedExchangeIsTerminal ==
    \A r \in Slots :
        LET q == reqs[r] IN
        (q.handler \in CallbackHandlers /\ TokenAnswered(q)
            /\ ~q.tokenResponse.throws /\ ~TokenSucceeded(q.tokenResponse))
            => /\ q.pc = "done"
               /\ q.status >= 400
               /\ q.location = NoLocation
               /\ InstallationsUrl \notin CallUrls(q)

\* C6: a callback with a provider error and a state that decodes to an
\* allowlisted return URL is redirected (302) to that URL with the error
\* attached as a query parameter, and exchanges no token.
C6_ProviderErrorRedirect ==
    \A r \in Slots :
        LET q == reqs[r] IN
        (q.handler \in CallbackHandlers /\ q.error # Absent
            /\ ~Undecodable(q) /\ ~MatchesNoPrefix(q.state.payload)
            /\ CanParseURL(q.state.payload))
            => /\ q.pc = "done"
               /\ q.status = 302
               /\ q.location.target = Href(q.state.payload)
               /\ q.location.error = q.error
               /\ q.calls = <<>>

\* C7: when the installation listing reports zero installations (a zero
\* total_count or an empty list), the callback redirects (302) to the
\* installation page and the state parameter of that redirect is the very
\* state value the request carried, neither re-encoded nor minted anew.
C7_InstallRedirectForwardsState ==
    \A r \in Slots :
        LET q == reqs[r] IN
        (q.handler \in CallbackHandlers /\ q.installationsResponse.ok
            /\ (q.installationsResponse.total_count = 0
                   \/ q.installationsResponse.installations = 0))
            => /\ q.pc = "done"
               /\ q.status = 302
               /\ q.location.target = GhInstallUrl
               /\ q.location.state = q.state
               /\ q.location.state.fmt = "sealed"
               /\ ~CarriesCredentials(q.location)

\* a callback whose listing came back with total_count 0 has been sent to
\* the installation page
C7_Witness ==
    \E r \in Slots :
        /\ reqs[r].handler = "gh_authorized"
        /\ reqs[r].installationsResponse.ok
        /\ reqs[r].installationsResponse.total_count = 0
        /\ reqs[r].location.target = GhInstallUrl

\* C8: when the installation listing reports at least one installation
\* (a positive total_count with a non-empty list), the callback redirects
\* to the return URL decoded from the state with the token data as a query
\* parameter; the installation page is neither the target nor contacted.
C8_DashboardRedirectCarriesToken ==
    \A r \in Slots :
        LET q == reqs[r] IN
        (q.handler \in CallbackHandlers /\ q.installationsResponse.ok
            /\ q.installationsResponse.total_count >= 1
            /\ q.installationsResponse.installations >= 1)
            => /\ q.pc = "done"
               /\ q.status = 302
               /\ ~Undecodable(q)
               /\ q.location.target = Href(q.state.payload)
               /\ q.location.github_authorized = q.tokenResponse.data
               /\ q.location.github_authorized.access_token # Absent
               /\ q.location.target # GhInstallUrl
               /\ q.location.state = AbsentToken
               /\ GhInstallUrl \notin CallUrls(q)

\* a callback whose listing reported an installation has been redirected
C8_Witness ==
    \E r \in Slots :
        /\ reqs[r].handler = "gh_authorized"
        /\ reqs[r].installationsResponse.ok
        /\ reqs[r].installationsResponse.total_count >= 1
        /\ reqs[r].installationsResponse.installations >= 1
        /\ reqs[r].status = 302

NoUpstreamNoRedirect(q) ==
    /\ q.pc = "done"
    /\ q.status = 400
    /\ q.calls = <<>>
    /\ q.location = NoLocation
    /\ Count(q.log, "decodeState") <= 1

\* C9 (as stated): a state value that does not decode, or a missing code or
\* state parameter, ends the callback with 400: no upstream call, no
\* redirect, no second decode.
C9_BadStateOrMissingParam ==
    \A r \in Slots :
        LET q == reqs[r] IN
        (q.handler \in CallbackHandlers /\ (Undecodable(q) \/ q.code = Absent))
            => NoUpstreamNoRedirect(q)

\* /api/oauth/authorized looks at code only after it has decoded the state,
\* checked the URL, parsed it and handled a provider error
OaSkipsCodeCheck(q) ==
    /\ q.handler = "oa_authorized"
    /\ ~Undecodable(q)
    /\ ~MatchesNoPrefix(q.state.payload)
    /\ (q.error # Absent \/ ~CanParseURL(q.state.payload))

\* C9 (amended): a state value that does not decode, or a missing state,
\* ends either callback with 400, no upstream call, no redirect and no
\* second decode; so does a missing code, except in /api/oauth/authorized
\* when the state decodes to an allowlisted URL and either the provider
\* reported an error (302 to the return URL) or the URL does not parse
\* (500).  In none of these cases is an upstream call made or the decode
\* repeated.
C9_BadStateOrMissingParamAmended ==
    \A r \in Slots :
        LET q == reqs[r] IN
        (q.handler \in CallbackHandlers /\ (Undecodable(q) \/ q.code = Absent))
            => /\ q.pc = "done"
               /\ q.calls = <<>>
               /\ Count(q.log, "decodeState") <= 1
               /\ ~OaSkipsCodeCheck(q) => NoUpstreamNoRedirect(q)
               /\ OaSkipsCodeCheck(q) =>
                     IF CanParseURL(q.state.payload)
                         THEN IsBareReturnRedirect(q)
                         ELSE q.status = 500 /\ q.location = NoLocation

\* one callback was turned away for an expired state, the other for a
\* missing code with a state that is in order
C9_Witness ==
    /\ reqs["r1"].handler = "gh_authorized" /\ reqs["r1"].status = 400
    /\ reqs["r1"].state.fmt = "sealed" /\ reqs["r1"].state.key = ENCRYPTION_SECRETS
    /\ reqs["r1"].state.exp # NoExpiry /\ reqs["r1"].at > reqs["r1"].state.exp
    /\ reqs["r2"].handler = "oa_authorized" /\ reqs["r2"].status = 400
    /\ reqs["r2"].code = Absent /\ ~Undecodable(reqs["r2"])
    /\ ~MatchesNoPrefix(reqs["r2"].state.payload)

\* C10: a state that decodes to a return URL matching no allowlisted prefix
\* ends the callback with 400 before anything else is done with the URL: no
\* upstream call, no redirect.
C10_DecodedUrlRevalidated ==
    \A r \in Slots :
        LET q == reqs[r] IN
        (q.handler \in CallbackHandlers /\ ~Undecodable(q)
            /\ MatchesNoPrefix(q.state.payload))
            => /\ q.pc = "done"
               /\ q.status = 400
               /\ q.calls = <<>>
               /\ q.location = NoLocation
               /\ q.appReturnUrl = Absent

\* both callbacks have refused a state that decoded to an unlisted URL,
\* code present
C10_Witness ==
    /\ reqs["r1"].handler = "gh_authorized" /\ reqs["r2"].handler = "oa_authorized"
    /\ \A r \in Slots :
          /\ reqs[r].code # Absent
          /\ ~Undecodable(reqs[r])
          /\ reqs[r].state.payload = UrlB
          /\ reqs[r].status = 400
          /\ reqs[r].body = INVALID_REDIRECT_MSG

(* ------------------------- secrets and errors ------------------------- *)
TheSecret == GITHUB_CLIENT_SECRET[1]

\* every string a response shows its receiver
BundleStrings(d) == {d.access_token, d.refresh_token, d.error}

ResponseStrings(q) ==
    {q.body, q.token,
     q.location.target, q.location.client_id, q.location.target_type,
     q.location.redirect_uri, q.location.error,
     q.location.state.payload,
     q.location.accessSession.payload, q.location.refreshSession.payload}
    \cup BundleStrings(q.location.github_authorized)
    \cup BundleStrings(q.json)

\* C11: the client secret is in no response: not in a body (error message,
\* token bundle, unwrapped token), not in any parameter of a redirect
\* Location, not sealed inside a token handed out.  It is present only in
\* the body of a POST to the provider's token endpoint.
C11_SecretNeverInResponse ==
    \A r \in Slots :
        LET q == reqs[r] IN
        /\ \A str \in ResponseStrings(q) : ~Contains(str, TheSecret)
        /\ \A i \in 1..Len(q.calls) :
              /\ \A str \in {q.calls[i].url, q.calls[i].client_id, q.calls[i].code,
                             q.calls[i].bearer, q.calls[i].grant_type,
                             q.calls[i].refresh_token, q.calls[i].state.payload} :
                    ~Contains(str, TheSecret)
              /\ q.calls[i].client_secret # Absent
                    => /\ q.calls[i].client_secret = GITHUB_CLIENT_SECRET
                       /\ q.calls[i].url = GITHUB_OAUTH_ACCESS_TOKEN_URL

\* the secret has gone out in a token exchange and in a refresh grant; the
\* exchange ended in a redirect that carries the token bundle, the refresh
\* in an upstream error
C11_Witness ==
    /\ reqs["r1"].handler = "gh_authorized" /\ reqs["r1"].status = 302
    /\ reqs["r1"].calls[1].client_secret = GITHUB_CLIENT_SECRET
    /\ reqs["r1"].location.github_authorized # NoTokenData
    /\ reqs["r2"].handler = "gh_refresh" /\ reqs["r2"].status = 500
    /\ Len(reqs["r2"].calls) = 1
    /\ reqs["r2"].calls[1].client_secret = GITHUB_CLIENT_SECRET

\* what can go wrong upstream during a callback
InstallationsAnswered(q) == q.installationsResponse # NoInstallationsResponse

TokenTransportFailed(q) ==
    TokenAnswered(q) /\ (q.tokenResponse.throws \/ ~q.tokenResponse.ok)

TokenErrorBody(q) ==
    /\ TokenAnswered(q) /\ ~q.tokenResponse.throws /\ q.tokenResponse.ok
    /\ q.tokenResponse.data.error # Absent

InstallationsFailed(q) ==
    InstallationsAnswered(q) /\ (q.installationsResponse.throws \/ ~q.installationsResponse.ok)

ProxyForwarded(q) == q.sent # <<>>

\* the method the specification has the proxy forward
EffectiveMethod(q) == toUpperCase(IF q.override # "" THEN q.override ELSE q.method)

\* C13: the proxy forwards the override method (upper-cased) when one is
\* given and the inbound method otherwise, and it reads and forwards the
\* request body, verbatim, exactly when that effective method is neither GET
\* nor HEAD.  Methods are compared without regard to case.
C13_OverrideMethodAndBody ==
    ProxyForwarded(proxy)
        => /\ toUpperCase(proxy.sent[1].method) = EffectiveMethod(proxy)
           /\ proxy.bodyRead <=> EffectiveMethod(proxy) \notin {"GET", "HEAD"}
           /\ proxy.sent[1].hasBody <=> proxy.bodyRead
           /\ proxy.sent[1].body = (IF proxy.bodyRead THEN proxy.body ELSE "")

ProxyRelayed(q) ==
    q.pc = "done" /\ q.targetResponse # NoTargetResponse /\ ~q.targetResponse.throws

\* the target's headers but for those named, names compared without regard
\* to case
HeadersBut(headers, names) ==
    { [name |-> LowerName(h.name), value |-> h.value] :
          h \in { g \in headers : LowerName(g.name) \notin names } }

ScrubList ==
    {"content-security-policy", "x-frame-options", "access-control-allow-origin"}

\* C14: whatever the target answered, the relayed response has the target's
\* status and body and every header of the target except
\* Content-Security-Policy, X-Frame-Options and Access-Control-Allow-Origin,
\* which it never has.
C14_ResponseHeaderScrub ==
    ProxyRelayed(proxy)
        => /\ proxy.status = proxy.targetResponse.status
           /\ proxy.resBody = proxy.targetResponse.body
           /\ \A h \in proxy.resHeaders : h.name \notin ScrubList
           /\ proxy.resHeaders = HeadersBut(proxy.targetResponse.headers, ScrubList)

\* C14 amended: as C14, but the proxy of index.ts also removes the target's
\* X-Content-Security-Policy header, which the proxy of routes/proxy.ts
\* relays.
C14_ResponseHeaderScrubAmended ==
    ProxyRelayed(proxy)
        => /\ proxy.status = proxy.targetResponse.status
           /\ proxy.resBody = proxy.targetResponse.body
           /\ \A h \in proxy.resHeaders : h.name \notin ScrubList
           /\ proxy.resHeaders =
                 HeadersBut(proxy.targetResponse.headers,
                            IF proxy.handler = "ix_proxy"
                                THEN ScrubList \cup {"x-content-security-policy"}
                                ELSE ScrubList)

\* the target sent all of its headers, and what came back through the proxy
\* of routes/proxy.ts is the content type and the X-Content-Security-Policy
C14_Witness ==
    /\ proxy.handler = "rt_proxy" /\ ProxyRelayed(proxy)
    /\ proxy.targetResponse.headers = TargetHeaders
    /\ proxy.status = 207
    /\ { h.name : h \in proxy.resHeaders } = {"content-type", "x-content-security-policy"}

\* C15: the request sent to the target carries no Origin and no Host header
\* of the inbound request, however the names are spelled, and every other
\* inbound header with its value.
C15_OriginHostStripped ==
    ProxyForwarded(proxy)
        => /\ \A h \in proxy.sent[1].headers : h.name \notin {"origin", "host"}
           /\ proxy.sent[1].headers = HeadersBut(proxy.headers, {"origin", "host"})

\* a request that came with Origin, host and Authorization has gone out with
\* Authorization alone
C15_Witness ==
    /\ ProxyForwarded(proxy)
    /\ proxy.headers = InboundHeaders
    /\ proxy.sent[1].headers = {[name |-> "authorization", value |-> "Basic dXNlcg=="]}

\* C16: when the forwarding fetch rejects, the proxy answers 502 with a body
\* that carries the failure's description, having tried once; when the url
\* parameter is missing or is no absolute URL it answers 400 and has not
\* tried at all.
C16_ProxyErrors ==
    /\ proxy.targetResponse.throws
          => /\ proxy.pc = "done"
             /\ proxy.status = 502
             /\ \A i \in 1..Len(proxy.targetResponse.message) :
                   Contains(proxy.text, proxy.targetResponse.message[i])
             /\ Len(proxy.sent) = 1
             /\ proxy.resHeaders = {} /\ proxy.resBody = ""
    /\ (proxy.handler # "none" /\ (proxy.url = Absent \/ ~CanParseURL(proxy.url)))
          => /\ proxy.pc = "done"
             /\ proxy.status = 400
             /\ proxy.text # Absent
             /\ proxy.sent = <<>>
             /\ proxy.targetResponse = NoTargetResponse

\* a forwarding attempt of the proxy of index.ts has failed and been
\* answered 502
C16_Witness ==
    /\ proxy.handler = "ix_proxy"
    /\ proxy.targetResponse.throws
    /\ proxy.status = 502
    /\ Len(proxy.sent) = 1

(* ------------------------------ no retries ----------------------------- *)
UpstreamFailed(q) == TokenTransportFailed(q) \/ InstallationsFailed(q)

\* C17: nothing is retried.  A callback issues at most two upstream calls,
\* the token exchange and then the installation listing, each at most once;
\* an authorize, refresh or session-unwrap request issues at most one; a
\* proxy request that passed validation issues exactly one; and a request
\* whose upstream call failed is over, with that call its last.
C17_NoRetries ==
    /\ \A r \in Slots :
          LET q == reqs[r] IN
          /\ q.handler \in CallbackHandlers
                => /\ Len(q.calls) <= 2
                   /\ Len(q.calls) >= 1 => q.calls[1].url = GITHUB_OAUTH_ACCESS_TOKEN_URL
                   /\ Len(q.calls) = 2 => q.calls[2].url = InstallationsUrl
          /\ q.handler \in AuthorizeHandlers \cup {"gh_refresh", "oa_token"}
                => Len(q.calls) <= 1
          /\ Count(q.log, "fetch_token") <= 1
          /\ Count(q.log, "fetch_installations") <= 1
          /\ UpstreamFailed(q)
                => /\ q.pc = "done"
                   /\ Len(q.calls) = (IF InstallationsAnswered(q) THEN 2 ELSE 1)
    /\ (proxy.handler # "none" /\ proxy.url # Absent /\ CanParseURL(proxy.url))
          => Len(proxy.sent) = 1
    /\ proxy.targetResponse # NoTargetResponse
          => proxy.pc = "done" /\ Len(proxy.sent) = 1

\* a callback has seen its installation listing fail after two calls, and a
\* refresh its only call
C17_Witness ==
    /\ reqs["r1"].handler = "gh_authorized" /\ InstallationsFailed(reqs["r1"])
    /\ Len(reqs["r1"].calls) = 2 /\ reqs["r1"].pc = "done"
    /\ reqs["r2"].handler = "gh_refresh" /\ TokenTransportFailed(reqs["r2"])
    /\ Len(reqs["r2"].calls) = 1 /\ reqs["r2"].pc = "done"

(* ------------------------------- refresh ------------------------------- *)
\* C18: refresh never redirects.  It answers 200 with the token bundle as
\* its body only when the refresh-grant POST came back with a success
\* status, an access token and no error field; a request without
\* refreshToken is refused before any upstream call, and that, a
\* non-success upstream status and an upstream error body are each answered
\* 400 or 500 with an error message and no token data.
C18_RefreshAnswers ==
    \A r \in Slots :
        LET q == reqs[r] IN
        q.handler = "gh_refresh"
            => /\ q.location = NoLocation /\ q.status # 302
               /\ q.pc = "done" => q.status \in {200, 400, 500}
               /\ q.status = 200
                     => /\ TokenSucceeded(q.tokenResponse)
                        /\ q.json = q.tokenResponse.data
                        /\ q.body = Absent
                        /\ Len(q.calls) = 1
                        /\ q.calls[1].grant_type = <<"refresh_token">>
                        /\ q.calls[1].refresh_token = q.refreshToken
               /\ q.refreshToken = Absent
                     => /\ q.pc = "done" /\ q.status \in {400, 500}
                        /\ q.calls = <<>>
                        /\ q.json = NoTokenData /\ q.body # Absent
               /\ (TokenAnswered(q) /\ ~TokenSucceeded(q.tokenResponse))
                     => /\ q.pc = "done" /\ q.status \in {400, 500}
                        /\ q.json = NoTokenData /\ q.body # Absent

\* one refresh has returned a new bundle, another was sent without a
\* refreshToken and refused
C18_Witness ==
    /\ reqs["r1"].handler = "gh_refresh" /\ reqs["r1"].status = 200
    /\ reqs["r1"].json.access_token # Absent
    /\ reqs["r2"].handler = "gh_refresh" /\ reqs["r2"].bodyOk
    /\ reqs["r2"].refreshToken = Absent /\ reqs["r2"].status = 500

(* --------------------------- session round trip ------------------------ *)
\* the session value does not decode at the time the request reads the clock
SessionUndecodable(q) ==
    \/ q.session.fmt # "sealed"
    \/ q.session.key # ENCRYPTION_SECRETS
    \/ (q.session.exp # NoExpiry /\ q.at > q.session.exp)

SuccessfulCallback(c) ==
    /\ c.handler = "oa_authorized" /\ c.status = 302
    /\ TokenSucceeded(c.tokenResponse)

\* C19: the accessSession a successful callback attached to the return URL,
\* posted to /api/oauth/token before its expiry, is answered 200 with the
\* access token that callback obtained; a session that does not decode and a
\* missing session are answered 400 without a token; the handler makes no
\* upstream call.
C19_SessionRoundTrip ==
    \A r \in Slots :
        LET q == reqs[r] IN
        (q.handler = "oa_token" /\ q.bodyOk)
            => /\ q.pc = "done" /\ q.calls = <<>>
               /\ q.location = NoLocation
               /\ \A c \in Slots :
                     (SuccessfulCallback(reqs[c])
                         /\ q.session = reqs[c].location.accessSession
                         /\ q.at < q.session.exp)
                     => /\ q.status = 200
                        /\ q.token = reqs[c].tokenResponse.data.access_token
                        /\ q.body = Absent
               /\ (q.session = AbsentToken \/ SessionUndecodable(q))
                     => /\ q.status = 400
                        /\ q.token = Absent
                        /\ q.body # Absent

\* a callback has handed out a session that expires at 2, and the session
\* was unwrapped at 1 into the access token the provider had issued
C19_Witness ==
    /\ SuccessfulCallback(reqs["r1"])
    /\ reqs["r1"].location.accessSession.exp = 2
    /\ reqs["r2"].handler = "oa_token"
    /\ reqs["r2"].session = reqs["r1"].location.accessSession
    /\ reqs["r2"].at = 1
    /\ reqs["r2"].status = 200
    /\ reqs["r2"].token = <<"ghu_access">>

(* ------------------------------ allowlist ------------------------------ *)
\* C20: a URL is allowed exactly when it starts with some allowlist entry,
\* compared as strings and with regard to case: with https://a.example on
\* the list, https://a.example/x and https://a.example.evil.com are allowed,
\* and a URL that differs from every entry in case or scheme is not.  The
\* helper of index.ts and the helper of part_000 give the same answer for
\* every URL.
C20_PrefixAllowlist ==
    allow.pc = "done"
        => /\ allow.gh <=> ~MatchesNoPrefix(allow.url)
           /\ allow.oa <=> allow.gh
           /\ allow.url \in { <<"https://", "a.example", "/x">>,
                              <<"https://", "a.example", ".evil.com">> }
                 => allow.gh
           /\ allow.url \in { <<"HTTPS://", "a.example", "/x">>,
                              <<"https://", "A.example", "/x">>,
                              <<"http://", "a.example", "/x">>,
                              <<"a.example", "/x">>,
                              <<"https://">> }
                 => ~allow.gh

\* both helpers have let https://a.example.evil.com through
C20_Witness ==
    /\ allow.pc = "done"
    /\ allow.url = <<"https://", "a.example", ".evil.com">>
    /\ allow.gh /\ allow.oa

(* ------------------------------ token reuse ---------------------------- *)
\* the token a request presents to the codec, and whether it is still valid
\* when the request reads the clock
Presented(q) == IF q.handler = "oa_token" THEN q.session ELSE q.state

StillValid(q) ==
    /\ Presented(q).fmt = "sealed"
    /\ Presented(q).key = ENCRYPTION_SECRETS
    /\ (Presented(q).exp = NoExpiry \/ q.at <= Presented(q).exp)

DecodingHandlers == CallbackHandlers \cup {"oa_token"}

CodecMessages == {<<"Malformed state">>, <<"Tampered state">>, <<"Expired state">>}

\* the request got its token's payload out of the codec
Decoded(q) ==
    /\ Contains(q.log, "decodeState")
    /\ ~(q.status = 400 /\ q.body \in CodecMessages)
    /\ q.handler = "oa_token" => (q.status = 200 /\ q.token = Presented(q).payload)
    /\ q.appReturnUrl # Absent => q.appReturnUrl = Presented(q).payload

\* the request has passed the point where it decodes
ReachedDecode(q) ==
    /\ q.handler \in DecodingHandlers
    /\ q.handler = "oa_token" => (q.bodyOk /\ q.session # AbsentToken)
    /\ q.handler = "gh_authorized" => (q.code # Absent /\ q.state # AbsentToken)

\* C21: tokens are not single-use.  A request that presents a still-valid
\* token decodes it, whatever other requests have done with the same token
\* before; two requests that present the same still-valid token both decode
\* it, to the same payload.
C21_TokensNotSingleUse ==
    \A r \in Slots :
        LET q == reqs[r] IN
        (ReachedDecode(q) /\ StillValid(q))
            => /\ Decoded(q)
               /\ \A r2 \in Slots :
                     (ReachedDecode(reqs[r2]) /\ StillValid(reqs[r2])
                         /\ Presented(reqs[r2]) = Presented(q))
                     => /\ Decoded(reqs[r2])
                        /\ reqs[r2].handler = q.handler
                              => /\ reqs[r2].token = q.token
                                 /\ (q.appReturnUrl # Absent /\ reqs[r2].appReturnUrl # Absent)
                                       => reqs[r2].appReturnUrl = q.appReturnUrl

\* the same session has been unwrapped twice into the same token, the second
\* time after the first had been answered
C21_Witness ==
    /\ reqs["r1"].handler = "oa_token" /\ reqs["r2"].handler = "oa_token"
    /\ reqs["r1"].session = reqs["r2"].session
    /\ reqs["r1"].session.exp # NoExpiry
    /\ reqs["r1"].status = 200 /\ reqs["r2"].status = 200
    /\ reqs["r1"].token = reqs["r2"].token
    /\ reqs["r1"].token # Absent

(* --------------------------- non-interference -------------------------- *)
\* what a request came with
InputsOf(q) ==
    [IdleReq EXCEPT !.handler = q.handler, !.at = q.at,
                    !.redirect_uri = q.redirect_uri, !.host = q.host, !.proto = q.proto,
                    !.code = q.code, !.state = q.state, !.error = q.error,
                    !.bodyOk = q.bodyOk, !.refreshToken = q.refreshToken,
                    !.session = q.session]

ProxyInputsOf(q) ==
    [IdleProxy EXCEPT !.handler = q.handler, !.url = q.url, !.method = q.method,
                      !.override = q.override, !.headers = q.headers, !.body = q.body]

\* the request is where its handler, run alone on the request's inputs and
\* given the upstream answers the request received, would be
RunsAsAlone(q) ==
    LET in == InputsOf(q)
        tr == q.tokenResponse
        ir == q.installationsResponse
    IN  CASE q.handler = "none" -> q = IdleReq
          [] q.handler = "gh_authorize" ->
                \E n \in Nonces : q = GhAuthorizeStep(in, n)
          [] q.handler = "oa_authorize" ->
                \E n \in Nonces : q = OaAuthorizeStep(in, n)
          [] q.handler = "gh_authorized" ->
                LET s1 == GhAuthorizedStart(in, q.at)
                    s2 == GhAuthorizedToken([s1 EXCEPT !.tokenResponse = tr], tr)
                    s3 == GhAuthorizedInstallations(
                              [s2 EXCEPT !.installationsResponse = ir], ir)
                IN  \/ q = s1
                    \/ s1.pc = "await_token" /\ tr \in TokenResponses /\ q = s2
                    \/ /\ s1.pc = "await_token" /\ tr \in TokenResponses
                       /\ s2.pc = "await_install" /\ ir \in InstallationsResponses
                       /\ q = s3
          [] q.handler = "oa_authorized" ->
                LET s1 == OaAuthorizedStart(in, q.at)
                IN  \/ q = s1
                    \/ /\ s1.pc = "await_token" /\ tr \in TokenResponses
                       \* the clock read and the nonces show in the sessions
                       /\ \E e \in BOOLEAN :
                             q = OaAuthorizedToken(
                                     [s1 EXCEPT !.tokenResponse = tr], tr,
                                     q.location.accessSession.exp - TOKEN_VALIDITY_PERIOD,
                                     q.location.accessSession.nonce,
                                     q.location.refreshSession.nonce, e)
          [] q.handler = "gh_refresh" ->
                LET s1 == GhRefreshTokenStart(in)
                IN  \/ q = s1
                    \/ /\ s1.pc = "await_token" /\ tr \in TokenResponses
                       /\ q = GhRefreshTokenAnswer([s1 EXCEPT !.tokenResponse = tr], tr)
          [] q.handler = "oa_token" -> q = OaTokenStep(in, q.at)
          [] OTHER -> FALSE

ProxyRunsAsAlone(q) ==
    LET in == ProxyInputsOf(q)
        tr == q.targetResponse
    IN  CASE q.handler = "none" -> q = IdleProxy
          [] q.handler = "rt_proxy" ->
                LET s1 == RtProxyStart(in)
                IN  \/ q = s1
                    \/ /\ s1.pc = "await_fetch" /\ tr \in TargetResponses
                       /\ q = RtProxyAnswer([s1 EXCEPT !.targetResponse = tr], tr)
          [] q.handler = "ix_proxy" ->
                LET s1 == IxProxyStart(in)
                IN  \/ q = s1
                    \/ /\ s1.pc = "await_fetch" /\ tr \in TargetResponses
                       /\ q = IxProxyAnswer([s1 EXCEPT !.targetResponse = tr], tr)
          [] OTHER -> FALSE

IsReturnUrlOf(target, q) ==
    /\ ~Undecodable(q)
    /\ ~MatchesNoPrefix(q.state.payload)
    /\ Contains(q.log, "decodeState")
    /\ target = (IF \E i \in 1..Len(q.state.payload) : q.state.payload[i] \in PathSegments
                     THEN q.state.payload
                     ELSE q.state.payload \o <<"/">>)

\* C23: no open redirect through the callback.  Every redirect a callback
\* issues goes either to the provider's installation page or to the return
\* URL that this request decoded from its state and found on the allowlist;
\* the host header, the code, the error and the provider's answers never
\* supply the target.
C23_NoOpenRedirect ==
    \A r \in Slots :
        LET q == reqs[r] IN
        q.handler \in CallbackHandlers
            => /\ q.location # NoLocation => q.status = 302
               /\ q.status = 302
                     => \/ /\ q.location.target = GhInstallUrl
                           /\ q.handler = "gh_authorized"
                        \/ IsReturnUrlOf(q.location.target, q)
               /\ q.location.redirect_uri = Absent

\* one callback has redirected to the installation page, the other back to
\* the return URL of an allowlisted site after the provider reported an
\* error
C23_Witness ==
    /\ reqs["r1"].handler = "gh_authorized" /\ reqs["r1"].status = 302
    /\ reqs["r1"].location.target = GhInstallUrl
    /\ reqs["r2"].handler = "oa_authorized" /\ reqs["r2"].status = 302
    /\ reqs["r2"].error # Absent
    /\ reqs["r2"].location.target = UrlAx

(* ------------------------- credential confinement ---------------------- *)
\* the token strings the provider gave this request
ProviderTokens(q) ==
    {q.tokenResponse.data.access_token, q.tokenResponse.data.refresh_token} \ {Absent}

\* every string of the response that is not a credential parameter of the
\* redirect
OtherResponseStrings(q) ==
    {q.body, q.token,
     q.location.target, q.location.client_id, q.location.target_type,
     q.location.redirect_uri, q.location.error, q.location.state.payload}
    \cup BundleStrings(q.json)

\* C24: what a callback obtained from the provider leaves it only on a
\* redirect to the return URL this request decoded and found on the
\* allowlist.  The redirect to the installation page and every error
\* response (400 and 5xx) carry no token, no bundle and no session.
C24_CredentialConfinement ==
    \A r \in Slots :
        LET q == reqs[r] IN
        q.handler \in CallbackHandlers
            => /\ CarriesCredentials(q.location)
                     => /\ q.status = 302
                        /\ IsReturnUrlOf(q.location.target, q)
                        /\ q.location.target # GhInstallUrl
                        /\ TokenAnswered(q)
               /\ \A t \in ProviderTokens(q) :
                     \A str \in OtherResponseStrings(q) :
                        \A i \in 1..Len(t) : ~Contains(str, t[i])
               /\ q.status >= 400
                     => /\ ~CarriesCredentials(q.location)
                        /\ q.json = NoTokenData

\* a callback that held a fresh token has redirected to the installation
\* page, another that held one has answered 500
C24_Witness ==
    /\ reqs["r1"].handler = "gh_authorized" /\ TokenSucceeded(reqs["r1"].tokenResponse)
    /\ reqs["r1"].status = 302 /\ reqs["r1"].location.target = GhInstallUrl
    /\ reqs["r2"].handler = "gh_authorized" /\ TokenSucceeded(reqs["r2"].tokenResponse)
    /\ reqs["r2"].status = 500

(* -------------------------- returning-user branch ---------------------- *)
ListingSucceeded(q) ==
    /\ InstallationsAnswered(q)
    /\ ~q.installationsResponse.throws
    /\ q.installationsResponse.ok

HasInstallation(q) ==
    /\ q.installationsResponse.total_count >= 1
    /\ q.installationsResponse.installations >= 1

\* C25: after a successful installation listing, /api/github-oauth/authorized
\* redirects to the return URL with the token bundle exactly when
\* total_count is positive and the installations list is non-empty, and to
\* the installation page in every other case; it always takes exactly one
\* of the two branches.
C25_ReturningUserBranch ==
    \A r \in Slots :
        LET q == reqs[r] IN
        (q.handler = "gh_authorized" /\ ListingSucceeded(q))
            => /\ q.pc = "done" /\ q.status = 302
               /\ IsDashboardRedirect(q) <=> HasInstallation(q)
               /\ IsInstallRedirect(q) <=> ~HasInstallation(q)
               /\ Truth(IsDashboardRedirect(q)) + Truth(IsInstallRedirect(q)) = 1
               /\ IsDashboardRedirect(q) => q.location.github_authorized = q.tokenResponse.data
               /\ IsInstallRedirect(q) => q.location.state = q.state

\* a listing that counts an installation but lists none has led to the
\* installation page, and one that counts and lists one to the return URL
C25_Witness ==
    /\ reqs["r1"].handler = "gh_authorized" /\ ListingSucceeded(reqs["r1"])
    /\ reqs["r1"].installationsResponse.total_count = 1
    /\ reqs["r1"].installationsResponse.installations = 0
    /\ IsInstallRedirect(reqs["r1"])
    /\ reqs["r2"].handler = "gh_authorized" /\ ListingSucceeded(reqs["r2"])
    /\ reqs["r2"].installationsResponse.total_count = 1
    /\ reqs["r2"].installationsResponse.installations = 1
    /\ IsDashboardRedirect(reqs["r2"])

====
